---- MODULE Spec2Model ----
(***************************************************************************)
(* Model of src/android_packager.py: the Android Kotlin source packager.   *)
(*                                                                         *)
(* Text is a sequence of tokens.  A token is either one character          *)
(* ("a", ".", "/", " ", ...), one placeholder marker ("__MIN_SDK__", ...)  *)
(* or one chunk of literal template text.  str.replace is modelled on      *)
(* tokens, str.split / str.strip / re.sub on the characters.               *)
(*                                                                         *)
(* A resolved path is a sequence of components counted from the filesystem *)
(* root; a component is a text.  A pure path (pathlib) is [abs, comps].    *)
(* The filesystem is a function from the paths that exist to their entries *)
(* (a directory, or a file with its content).                              *)
(* The host is POSIX (pathlib.PurePosixPath rules).                        *)
(***************************************************************************)
EXTENDS Integers, Sequences, FiniteSets, TLC

VARIABLES
    fs,       \* the filesystem: [path -> entry]
    pc,       \* position of main(): "idle", "check_source", "create", "build", "done"
    args,     \* argparse namespace of the current run
    ret,      \* outcome of main(): [kind, code, exc]
    created,  \* outcome of the create_project call of the current run
    cmds,     \* subprocess.run invocations of the current run, in order
    fs0,      \* the filesystem when the current run (or call) started
    runs,     \* number of runs (or calls) started so far
    host,     \* what the host did during run_gradle_build of the current run
    built,    \* outcome of run_gradle_build of the current run: [exc, returncode]
    sn        \* safe_name under test: [s, f, out, applied]

vars == <<fs, pc, args, ret, created, cmds, fs0, runs, host, built, sn>>

-----------------------------------------------------------------------------
(* Bounds *)

MaxRuns == 1
MaxExit == 4
MaxIdLen == 4
MaxLen == 3

-----------------------------------------------------------------------------
(* Generic text helpers *)

BoundedSeq(S, n) == UNION {[1..k -> S] : k \in 0..n}

RECURSIVE Concat(_)
Concat(ss) == IF ss = <<>> THEN <<>> ELSE Head(ss) \o Concat(Tail(ss))

\* str.replace(old, new) where old is one token
Replace(text, old, new) ==
    Concat([i \in 1..Len(text) |-> IF text[i] = old THEN new ELSE <<text[i]>>])

\* str.split(sep): empty pieces are kept, the result is never empty
RECURSIVE Split(_, _)
Split(text, sep) ==
    IF \A i \in 1..Len(text) : text[i] # sep
    THEN <<text>>
    ELSE LET k == CHOOSE i \in 1..Len(text) :
                      text[i] = sep /\ \A j \in 1..(i - 1) : text[j] # sep
         IN  <<SubSeq(text, 1, k - 1)>> \o Split(SubSeq(text, k + 1, Len(text)), sep)

NonEmpty(t) == t # <<>>

DigitTok == <<"0", "1", "2", "3", "4", "5", "6", "7", "8", "9">>

\* str(n) for an int
RECURSIVE NatStr(_)
NatStr(n) == IF n < 10 THEN <<DigitTok[n + 1]>>
             ELSE NatStr(n \div 10) \o <<DigitTok[(n % 10) + 1]>>

str(n) == IF n < 0 THEN <<"-">> \o NatStr(0 - n) ELSE NatStr(n)

-----------------------------------------------------------------------------
(* Templates, src/android_packager.py:24-147 *)

ANDROID_MANIFEST == <<"<manifest/>">>

STRINGS_XML == <<"<resources><string name=app_name>", "{app_name}", "</string></resources>">>

SETTINGS_GRADLE == <<"pluginManagement{} rootProject.name = ", "__PROJECT_NAME__", " include(:app)">>

ROOT_BUILD_GRADLE == <<"plugins{}">>

NamespaceOpen == "android { namespace = "
NamespaceClose == " compileSdk = "
AppIdOpen == " defaultConfig { applicationId = "
AppIdClose == " minSdk = "

APP_BUILD_GRADLE ==
    << "plugins{}", NamespaceOpen, "__APPLICATION_ID__", NamespaceClose, "__COMPILE_SDK__",
       AppIdOpen, "__APPLICATION_ID__", AppIdClose, "__MIN_SDK__",
       " targetSdk = ", "__TARGET_SDK__", " } dependencies{}" >>

GRADLE_PROPERTIES == <<"org.gradle.jvmargs android.useAndroidX">>

PackageOpen == "package "
PackageClose == " import android.os.Bundle class MainActivity"

MAIN_ACTIVITY_TEMPLATE == <<PackageOpen, "__APPLICATION_ID__", PackageClose>>

-----------------------------------------------------------------------------
(* safe_name, src/android_packager.py:150-152 *)

Allowed == {"a", "Z", "0", "_", "-"}
Whitespace == {" "}
Other == {"!", "."}
Chars == Allowed \cup Whitespace \cup Other

\* str.strip(): leading and trailing whitespace removed
RECURSIVE lstrip(_)
lstrip(s) == IF s # <<>> /\ Head(s) \in Whitespace THEN lstrip(Tail(s)) ELSE s

RECURSIVE rstrip(_)
rstrip(s) == IF s # <<>> /\ s[Len(s)] \in Whitespace
             THEN rstrip(SubSeq(s, 1, Len(s) - 1)) ELSE s

strip(s) == rstrip(lstrip(s))

\* mutant: a replacement character instead of the empty string
re_sub_underscore(s) == [i \in 1..Len(s) |-> IF s[i] \in Allowed THEN s[i] ELSE "_"]

\* re.sub(r"[^A-Za-z0-9_\-]", "", s)
re_sub_disallowed(s) == SelectSeq(s, LAMBDA c : c \in Allowed)

safe_name(name, fallback) ==
    LET cleaned == re_sub_disallowed(strip(name))
    IN  IF cleaned # <<>> THEN cleaned ELSE fallback

-----------------------------------------------------------------------------
(* Filesystem *)

Nm(s) == <<s>>

Dir == [kind |-> "dir", content |-> <<>>]
File(c) == [kind |-> "file", content |-> c]

Exists(f, p) == p = <<>> \/ p \in DOMAIN f
IsDir(f, p) == p = <<>> \/ (p \in DOMAIN f /\ f[p].kind = "dir")
IsFile(f, p) == p \in DOMAIN f /\ f[p].kind = "file"

Parent(p) == IF p = <<>> THEN <<>> ELSE SubSeq(p, 1, Len(p) - 1)
Prefixes(p) == {SubSeq(p, 1, k) : k \in 0..Len(p)}
IsUnder(p, root) == Len(p) >= Len(root) /\ SubSeq(p, 1, Len(root)) = root

Put(f, p, e) == [q \in DOMAIN f \cup {p} |-> IF q = p THEN e ELSE f[q]]

Ok(f) == [fs |-> f, err |-> "none"]
Fail(f, e) == [fs |-> f, err |-> e]

\* Path.mkdir(parents=True, exist_ok=True)
mkdir_p(f, p) ==
    IF IsDir(f, p) THEN Ok(f)
    ELSE IF Exists(f, p) THEN Fail(f, "FileExistsError")
    ELSE IF \E q \in Prefixes(p) : IsFile(f, q) THEN Fail(f, "NotADirectoryError")
    ELSE Ok([q \in DOMAIN f \cup (Prefixes(p) \ {<<>>}) |->
                IF q \in DOMAIN f THEN f[q] ELSE Dir])

\* write_text, src/android_packager.py:155-157
write_text(f, path, content) ==
    LET m == mkdir_p(f, Parent(path))
    IN  IF m.err # "none" THEN m
        ELSE IF IsDir(m.fs, path) THEN Fail(m.fs, "IsADirectoryError")
        ELSE Ok(Put(m.fs, path, File(content)))

\* shutil.copy2(src, dst): into dst when dst is a directory
copy2(f, src, dst) ==
    LET target == IF IsDir(f, dst) THEN dst \o <<src[Len(src)]>> ELSE dst
    IN  IF ~IsFile(f, src) THEN Fail(f, "FileNotFoundError")
        ELSE IF IsDir(f, target) THEN Fail(f, "IsADirectoryError")
        ELSE IF target = src THEN Fail(f, "SameFileError")
        ELSE Ok(Put(f, target, File(f[src].content)))

-----------------------------------------------------------------------------
(* pathlib pure paths *)

PP(abs, comps) == [abs |-> abs, comps |-> comps]

\* PurePosixPath(text): "/" separates, empty and "." components vanish
IsComponent(t) == t # <<>> /\ t # <<".">>

ParsePath(text) ==
    PP(text # <<>> /\ Head(text) = "/", SelectSeq(Split(text, "/"), IsComponent))

\* base / other: an absolute right operand replaces the left one
Join(base, other) ==
    IF other.abs THEN other ELSE PP(base.abs, base.comps \o other.comps)

\* Path(*segments)
RECURSIVE PathOf(_)
PathOf(segments) ==
    IF segments = <<>> THEN PP(FALSE, <<>>)
    ELSE Join(PathOf(SubSeq(segments, 1, Len(segments) - 1)),
              ParsePath(segments[Len(segments)]))

\* the process's working directory
CWD == <<Nm("work")>>

Resolve(p) == IF p.abs THEN p.comps ELSE CWD \o p.comps

Child(p, name) == PP(p.abs, p.comps \o <<Nm(name)>>)

-----------------------------------------------------------------------------
(* create_project, src/android_packager.py:160-197 *)

RECURSIVE write_all(_, _)
write_all(f, ws) ==
    IF ws = <<>> THEN Ok(f)
    ELSE LET r == write_text(f, Resolve(Head(ws).path), Head(ws).content)
         IN  IF r.err # "none" THEN r ELSE write_all(r.fs, Tail(ws))

\* project_root = output_dir / project_name
project_root_of(output_dir, project_name) == Join(output_dir, ParsePath(project_name))

\* app/src/main
AppMain(project_root) == Child(Child(Child(project_root, "app"), "src"), "main")

\* mutant: one directory per segment, taken verbatim
package_dir_verbatim(application_id) == PP(FALSE, Split(application_id, "."))

\* Path(*application_id.split("."))
package_dir(application_id) == PathOf(Split(application_id, "."))

\* main_activity_path, line 190
main_activity_path_of(project_root, application_id) ==
    Child(Join(Child(AppMain(project_root), "java"), package_dir(application_id)),
          "MainActivity.kt")

\* lines 174-180
render_settings_gradle(project_name) ==
    Replace(SETTINGS_GRADLE, "__PROJECT_NAME__", project_name)

render_app_build_gradle(application_id, compile_sdk, min_sdk, target_sdk) ==
    Replace(Replace(Replace(Replace(APP_BUILD_GRADLE,
        "__APPLICATION_ID__", application_id),
        "__COMPILE_SDK__", str(compile_sdk)),
        "__MIN_SDK__", str(min_sdk)),
        "__TARGET_SDK__", str(target_sdk))

\* line 188: STRINGS_XML.format(app_name=app_name)
render_strings_xml(app_name) == Replace(STRINGS_XML, "{app_name}", app_name)

\* line 195
render_main_activity(application_id) ==
    Replace(MAIN_ACTIVITY_TEMPLATE, "__APPLICATION_ID__", application_id)

\* mutant: the wrapper script is written with the templates
template_writes_with_wrapper(project_root, project_name, app_name, application_id, compile_sdk, min_sdk, target_sdk) ==
    << [path |-> Child(project_root, "settings.gradle.kts"),
        content |-> render_settings_gradle(project_name)],
       [path |-> Child(project_root, "gradlew"), content |-> <<"#!wrapper">>],
       [path |-> Child(Child(project_root, "app"), "build.gradle.kts"),
        content |-> render_app_build_gradle(application_id, compile_sdk, min_sdk, target_sdk)] >>

\* lines 182-188, in order
template_writes(project_root, project_name, app_name, application_id, compile_sdk, min_sdk, target_sdk) ==
    << [path |-> Child(project_root, "settings.gradle.kts"),
        content |-> render_settings_gradle(project_name)],
       [path |-> Child(project_root, "build.gradle.kts"), content |-> ROOT_BUILD_GRADLE],
       [path |-> Child(project_root, "gradle.properties"), content |-> GRADLE_PROPERTIES],
       [path |-> Child(Child(project_root, "app"), "build.gradle.kts"),
        content |-> render_app_build_gradle(application_id, compile_sdk, min_sdk, target_sdk)],
       [path |-> Child(Child(project_root, "app"), "proguard-rules.pro"), content |-> <<>>],
       [path |-> Child(AppMain(project_root), "AndroidManifest.xml"),
        content |-> ANDROID_MANIFEST],
       [path |-> Child(Child(Child(AppMain(project_root), "res"), "values"), "strings.xml"),
        content |-> render_strings_xml(app_name)] >>

\* lines 190-195: the source stub
write_stub(f, source_file, main_activity_path, application_id) ==
    IF source_file # <<>>
    THEN LET m == mkdir_p(f, Parent(Resolve(main_activity_path)))
         IN  IF m.err # "none" THEN m
             ELSE copy2(m.fs, Resolve(source_file[1]), Resolve(main_activity_path))
    ELSE write_text(f, Resolve(main_activity_path), render_main_activity(application_id))

\* mutant: the existence check of lines 171-172 is missing
create_project_unguarded(f, source_file, output_dir, project_name, app_name, application_id, compile_sdk, min_sdk, target_sdk) ==
    LET project_root == project_root_of(output_dir, project_name)
        w == write_all(f, template_writes(project_root, project_name, app_name,
                          application_id, compile_sdk, min_sdk, target_sdk))
    IN  IF w.err # "none" THEN w
        ELSE write_stub(w.fs, source_file,
                        main_activity_path_of(project_root, application_id),
                        application_id)

\* source_file is <<>> (None) or <<path>>; the result is [fs, err]
create_project(f, source_file, output_dir, project_name, app_name, application_id, compile_sdk, min_sdk, target_sdk) ==
    LET project_root == project_root_of(output_dir, project_name)
        w == write_all(f, template_writes(project_root, project_name, app_name,
                          application_id, compile_sdk, min_sdk, target_sdk))
    IN  IF Exists(f, Resolve(project_root)) THEN Fail(f, "FileExistsError")
        ELSE IF w.err # "none" THEN w
        ELSE write_stub(w.fs, source_file,
                        main_activity_path_of(project_root, application_id),
                        application_id)

-----------------------------------------------------------------------------
(* run_gradle_build, src/android_packager.py:200-213 *)

\* sys.platform of the modelled host
platform == "linux"

gradlew == IF platform = "win32" THEN "gradlew.bat" ELSE "gradlew"

Cmd(prog, argv) == [prog |-> prog, argv |-> argv]

BuildOutcome(f, c, exc, rc) == [fs |-> f, cmds |-> c, exc |-> exc, returncode |-> rc]

\* what `gradle wrapper` leaves in its working directory when it succeeds
wrapper_files(f, cwd) ==
    Put(Put(f, cwd \o <<Nm("gradlew")>>, File(<<"#!wrapper">>)),
        cwd \o <<Nm("gradlew.bat")>>, File(<<"@wrapper">>))

\* lines 208-213: the wrapper build, run with cwd=project_root.  A relative
\* program path is looked up from the child's working directory.
run_assemble(f, c, project_root, offline, env) ==
    LET gradlew_path == Child(project_root, gradlew)
        cwd == Resolve(project_root)
        exe == IF gradlew_path.abs THEN gradlew_path.comps ELSE cwd \o gradlew_path.comps
        cmd == Cmd(gradlew, <<"assembleDebug">> \o (IF offline THEN <<"--offline">> ELSE <<>>))
        c2 == Append(c, cmd)
    IN  IF ~IsDir(f, cwd) \/ ~Exists(f, exe) THEN BuildOutcome(f, c2, "FileNotFoundError", 0)
        ELSE IF IsDir(f, exe) THEN BuildOutcome(f, c2, "PermissionError", 0)
        ELSE IF env.gradlew_rc # 0
             THEN BuildOutcome(f, c2, "CalledProcessError", env.gradlew_rc)
        ELSE BuildOutcome(f, c2, "none", 0)

\* mutant: the bootstrap runs without check=True
run_gradle_build_unchecked(f, project_root, offline, env) ==
    LET gradlew_path == Child(project_root, gradlew)
        cwd == Resolve(project_root)
        boot == <<Cmd("gradle", <<"wrapper">>)>>
    IN  IF Exists(f, Resolve(gradlew_path))
        THEN run_assemble(f, <<>>, project_root, offline, env)
        ELSE IF ~IsDir(f, cwd) \/ ~env.gradle_installed
             THEN BuildOutcome(f, boot, "FileNotFoundError", 0)
        ELSE run_assemble(IF env.wrapper_writes THEN wrapper_files(f, cwd) ELSE f,
                          boot, project_root, offline, env)

\* env is what the host does: whether gradle is installed, the exit code of
\* `gradle wrapper`, whether it wrote the wrapper, the exit code of the build
run_gradle_build(f, project_root, offline, env) ==
    LET gradlew_path == Child(project_root, gradlew)
        cwd == Resolve(project_root)
        boot == <<Cmd("gradle", <<"wrapper">>)>>
    IN  IF Exists(f, Resolve(gradlew_path))
        THEN run_assemble(f, <<>>, project_root, offline, env)
        ELSE IF ~IsDir(f, cwd) \/ ~env.gradle_installed
             THEN BuildOutcome(f, boot, "FileNotFoundError", 0)
        ELSE IF env.wrapper_rc # 0
             THEN BuildOutcome(f, boot, "CalledProcessError", env.wrapper_rc)
        ELSE run_assemble(IF env.wrapper_writes THEN wrapper_files(f, cwd) ELSE f,
                          boot, project_root, offline, env)

-----------------------------------------------------------------------------
(* main, src/android_packager.py:216-266 *)

Return(code) == [kind |-> "return", code |-> code, exc |-> "none"]
Raise(exc) == [kind |-> "raise", code |-> 1, exc |-> exc]
Running == [kind |-> "none", code |-> 0, exc |-> "none"]

DefaultProject == <<"AiGeneratedAndroidApp">>
DefaultAppName == <<"AI Generated App">>
DefaultApplicationId == <<"com", ".", "example", ".", "aigeneratedapp">>
DefaultOut == PP(FALSE, <<Nm("dist")>>)
DefaultCompileSdk == 34
DefaultMinSdk == 24
DefaultTargetSdk == 34

\* line 231
project_name_of(a) == safe_name(a.project, DefaultProject)

\* mutant: the existence check of the source is skipped
source_missing_ignored(f, source_file) == FALSE

\* line 233
source_missing(f, source_file) ==
    source_file # <<>> /\ ~Exists(f, Resolve(source_file[1]))

\* lines 238-247
main_create(f, a) ==
    create_project(f, a.source, a.out, project_name_of(a), a.app_name, a.application_id,
                   a.compile_sdk, a.min_sdk, a.target_sdk)

\* mutant: every failed subprocess is reported as 1
build_exit_flat(b) ==
    IF b.exc = "none" THEN Return(0)
    ELSE IF b.exc = "CalledProcessError" THEN Return(1)
    ELSE IF b.exc = "FileNotFoundError" THEN Return(4)
    ELSE Raise(b.exc)

\* lines 256-264: the exit code for the outcome of run_gradle_build
build_exit(b) ==
    IF b.exc = "none" THEN Return(0)
    ELSE IF b.exc = "CalledProcessError"
         THEN Return(IF b.returncode # 0 THEN b.returncode ELSE 1)
    ELSE IF b.exc = "FileNotFoundError" THEN Return(4)
    ELSE Raise(b.exc)

-----------------------------------------------------------------------------
(* Inputs and initial filesystems *)

SourceIn == PP(TRUE, <<Nm("in"), Nm("Main.kt")>>)
SourceGone == PP(TRUE, <<Nm("missing.kt")>>)
OutAbs == PP(TRUE, <<Nm("out")>>)

MkFs(entries) ==
    [p \in {e[1] : e \in entries} |-> (CHOOSE e \in entries : e[1] = p)[2]]

BaseEntries ==
    { <<CWD, Dir>>, <<<<Nm("in")>>, Dir>>, <<Resolve(SourceIn), File(<<"SRC">>)>> }

DistRoot == Resolve(project_root_of(DefaultOut, <<"a">>))

\* filesystems that do not come from the tool
ForeignFsSet ==
    { MkFs(BaseEntries),
      MkFs(BaseEntries \cup {<<Parent(DistRoot), Dir>>, <<DistRoot, File(<<"old">>)>>}),
      MkFs(BaseEntries \cup {<<Parent(DistRoot), Dir>>, <<DistRoot, Dir>>,
                             <<DistRoot \o <<Nm("gradlew")>>, File(<<"old">>)>>}),
      MkFs(BaseEntries \cup {<<<<Nm("a")>>, File(<<"old">>)>>}),
      MkFs(BaseEntries \cup {<<<<Nm("a")>>, Dir>>,
                             <<<<Nm("a"), Nm("MainActivity.kt")>>, File(<<"old">>)>>}),
      MkFs(BaseEntries \cup {<<<<Nm("a")>>, Dir>>,
                             <<<<Nm("a"), Nm("MainActivity.kt")>>, Dir>>}) }

Args(source, out, project, application_id, build, offline) ==
    [source |-> source, out |-> out, project |-> project, app_name |-> DefaultAppName,
     application_id |-> application_id, compile_sdk |-> DefaultCompileSdk,
     min_sdk |-> DefaultMinSdk, target_sdk |-> DefaultTargetSdk,
     build |-> build, offline |-> offline]

NoArgs == Args(<<>>, DefaultOut, <<>>, <<>>, FALSE, FALSE)

\* command lines of main
MainArgs ==
    { Args(src, out, prj, id, b, o) :
        src \in {<<>>, <<SourceIn>>, <<SourceGone>>},
        out \in {DefaultOut, OutAbs},
        prj \in {<<" ", "a", "!">>, <<"!">>},
        id \in {DefaultApplicationId, <<"/", "a">>},
        b \in BOOLEAN, o \in BOOLEAN }

IdAlphabet == {"a", ".", "/", "__MIN_SDK__"}

\* direct calls of create_project
CallArgs ==
    { Args(src, out, <<"a">>, id, FALSE, FALSE) :
        src \in {<<>>, <<SourceIn>>},
        out \in {DefaultOut, OutAbs},
        id \in BoundedSeq(IdAlphabet, MaxIdLen) }

\* What the host does during a build.  A field that describes a step the
\* bootstrap never reaches is 0 or FALSE: the code cannot observe it.
HostSet ==
    { e \in [gradle_installed : BOOLEAN, wrapper_rc : 0..MaxExit,
             wrapper_writes : BOOLEAN, gradlew_rc : 0..MaxExit] :
        /\ ~e.gradle_installed => e.wrapper_rc = 0
        /\ (~e.gradle_installed \/ e.wrapper_rc # 0) => ~e.wrapper_writes
        /\ ~e.wrapper_writes => e.gradlew_rc = 0 }

\* earlier successful runs of the tool on an empty disk
SeedArgs ==
    { Args(<<>>, DefaultOut, <<" ", "a", "!">>, DefaultApplicationId, FALSE, FALSE),
      Args(<<SourceIn>>, OutAbs, <<"!">>, DefaultApplicationId, FALSE, FALSE) }

NoHost == [gradle_installed |-> FALSE, wrapper_rc |-> 0,
           wrapper_writes |-> FALSE, gradlew_rc |-> 0]

NotBuilt == [exc |-> "not_called", returncode |-> 0]

NoSn == [s |-> <<>>, f |-> <<>>, out |-> <<>>, applied |-> FALSE]

status(r) == IF r.err = "none" THEN "ok" ELSE r.err

root_of(a) == project_root_of(a.out, project_name_of(a))

InitFsSet ==
    ForeignFsSet \cup {main_create(MkFs(BaseEntries), a).fs : a \in SeedArgs}

-----------------------------------------------------------------------------
(* main as a state machine *)

Init ==
    /\ fs \in InitFsSet
    /\ pc = "idle"
    /\ args = NoArgs
    /\ ret = Running
    /\ created = "not_called"
    /\ cmds = <<>>
    /\ fs0 = fs
    /\ runs = 0
    /\ host = NoHost
    /\ built = NotBuilt
    /\ sn = NoSn

\* lines 217-231: a new run of the tool
ParseArgs ==
    /\ pc \in {"idle", "done"}
    /\ runs < MaxRuns
    /\ \E a \in MainArgs : args' = a
    /\ pc' = "check_source"
    /\ ret' = Running
    /\ created' = "not_called"
    /\ cmds' = <<>>
    /\ fs0' = fs
    /\ runs' = runs + 1
    /\ host' = NoHost
    /\ built' = NotBuilt
    /\ UNCHANGED <<fs, sn>>

\* lines 232-235
SourceMissing ==
    /\ pc = "check_source"
    /\ source_missing(fs, args.source)
    /\ ret' = Return(2)
    /\ pc' = "done"
    /\ UNCHANGED <<fs, args, created, cmds, fs0, runs, host, built, sn>>

SourceOk ==
    /\ pc = "check_source"
    /\ ~source_missing(fs, args.source)
    /\ pc' = "create"
    /\ UNCHANGED <<fs, args, ret, created, cmds, fs0, runs, host, built, sn>>

\* lines 237-253 and 266: create_project returned
CreateOk ==
    /\ pc = "create"
    /\ LET r == main_create(fs, args)
       IN  /\ r.err = "none"
           /\ fs' = r.fs
           /\ created' = "ok"
    /\ IF args.build
       THEN pc' = "build" /\ ret' = ret
       ELSE pc' = "done" /\ ret' = Return(0)
    /\ UNCHANGED <<args, cmds, fs0, runs, host, built, sn>>

\* lines 248-250
CreateExists ==
    /\ pc = "create"
    /\ LET r == main_create(fs, args)
       IN  /\ r.err = "FileExistsError"
           /\ fs' = r.fs
           /\ created' = r.err
    /\ ret' = Return(3)
    /\ pc' = "done"
    /\ UNCHANGED <<args, cmds, fs0, runs, host, built, sn>>

\* any other exception of create_project leaves main uncaught
CreateRaises ==
    /\ pc = "create"
    /\ LET r == main_create(fs, args)
       IN  /\ r.err \notin {"none", "FileExistsError"}
           /\ fs' = r.fs
           /\ created' = r.err
           /\ ret' = Raise(r.err)
    /\ pc' = "done"
    /\ UNCHANGED <<args, cmds, fs0, runs, host, built, sn>>

\* lines 255-266
Build ==
    /\ pc = "build"
    /\ \E env \in HostSet :
         LET b == run_gradle_build(fs, root_of(args), args.offline, env)
         IN  /\ host' = env
             /\ fs' = b.fs
             /\ cmds' = b.cmds
             /\ built' = [exc |-> b.exc, returncode |-> b.returncode]
             /\ ret' = build_exit(b)
    /\ pc' = "done"
    /\ UNCHANGED <<args, created, fs0, runs, sn>>

Next == ParseArgs \/ SourceMissing \/ SourceOk \/ CreateOk \/ CreateExists
        \/ CreateRaises \/ Build

Spec == Init /\ [][Next]_vars

-----------------------------------------------------------------------------
(* create_project called directly, once from each initial filesystem *)

CallCreateProject ==
    /\ runs = 0
    /\ \E a \in CallArgs :
         LET r == create_project(fs, a.source, a.out, a.project, a.app_name,
                                 a.application_id, a.compile_sdk, a.min_sdk, a.target_sdk)
         IN  /\ args' = a
             /\ fs' = r.fs
             /\ created' = status(r)
    /\ fs0' = fs
    /\ runs' = 1
    /\ UNCHANGED <<pc, ret, cmds, host, built, sn>>

NextCreate == CallCreateProject

SpecCreate == Init /\ [][NextCreate]_vars

-----------------------------------------------------------------------------
(* safe_name applied to bounded inputs *)

Fallbacks == {<<>>, <<"a">>, <<"!">>, <<"a", " ">>, DefaultProject}

InitSafeName ==
    /\ fs = MkFs(BaseEntries)
    /\ pc = "idle"
    /\ args = NoArgs
    /\ ret = Running
    /\ created = "not_called"
    /\ cmds = <<>>
    /\ fs0 = fs
    /\ runs = 0
    /\ host = NoHost
    /\ built = NotBuilt
    /\ \E s \in BoundedSeq(Chars, MaxLen), f \in Fallbacks :
         sn = [s |-> s, f |-> f, out |-> <<>>, applied |-> FALSE]

ApplySafeName ==
    /\ ~sn.applied
    /\ sn' = [sn EXCEPT !.out = safe_name(sn.s, sn.f), !.applied = TRUE]
    /\ UNCHANGED <<fs, pc, args, ret, created, cmds, fs0, runs, host, built>>

NextSafeName == ApplySafeName

SpecSafeName == InitSafeName /\ [][NextSafeName]_vars

-----------------------------------------------------------------------------
(* Properties *)

Range(t) == {t[i] : i \in 1..Len(t)}

RootR == Resolve(root_of(args))

WrapperPath == Resolve(Child(root_of(args), gradlew))

BootCmd == Cmd("gradle", <<"wrapper">>)

AssembleInvoked == \E i \in 1..Len(cmds) : cmds[i].prog = gradlew

\* the tokens of text between the marker open and the next marker close
Field(text, open, close) ==
    LET i == CHOOSE k \in 1..Len(text) : text[k] = open
        rest == SubSeq(text, i + 1, Len(text))
        j == CHOOSE k \in 1..Len(rest) :
                 rest[k] = close /\ \A m \in 1..(k - 1) : rest[m] # close
    IN  SubSeq(rest, 1, j - 1)

\* C1: whenever create_project is called while output_dir/project_name
\* exists (file, directory, or the tree of an earlier run), it fails with
\* FileExistsError, main returns 3, no subprocess runs and the filesystem is
\* exactly what it was when the run started.
C1_ExistingRootRejected ==
    (created # "not_called" /\ Exists(fs0, RootR))
        => /\ created = "FileExistsError"
           /\ fs = fs0
           /\ pc = "done"
           /\ ret = Return(3)
           /\ cmds = <<>>

\* C1 witness: a run rejected on the tree that an earlier run with the same
\* parameters left on an empty disk
C1_Witness ==
    /\ created = "FileExistsError"
    /\ ret = Return(3)
    /\ fs0 = main_create(MkFs(BaseEntries), args).fs
    /\ IsDir(fs0, RootR \o <<Nm("app")>>)

SourceGoneRun ==
    /\ pc # "idle"
    /\ args.source # <<>>
    /\ ~Exists(fs0, Resolve(args.source[1]))

\* C2: in a run whose --source path does not exist, nothing is ever written
\* (the filesystem stays what it was at the start, create_project is not
\* called, no subprocess runs) and main returns 2, whether or not the project
\* root exists.
C2_MissingSourceTouchesNothing ==
    SourceGoneRun
        => /\ fs = fs0
           /\ created = "not_called"
           /\ cmds = <<>>
           /\ pc \in {"check_source", "done"}
           /\ pc = "done" => ret = Return(2)

\* C2 witness: exit code 2 although the project root already exists
C2_Witness ==
    /\ SourceGoneRun
    /\ pc = "done"
    /\ ret = Return(2)
    /\ Exists(fs0, RootR)

\* the wrapper was absent and `gradle wrapper` failed
BootstrapFailed ==
    /\ pc = "done"
    /\ built.exc # "not_called"
    /\ ~Exists(fs, WrapperPath)
    /\ ~host.gradle_installed \/ host.wrapper_rc # 0

FailureClass ==
    IF created = "not_called" THEN "source"
    ELSE IF created = "FileExistsError" THEN "exists"
    ELSE IF built.exc = "FileNotFoundError" THEN "tool"
    ELSE IF built.exc = "CalledProcessError" /\ AssembleInvoked THEN "build"
    ELSE "other"

\* C4 as stated: the exit code of a failed run identifies its class: 2 only
\* for a missing source, 3 only for an existing root, 4 only for a missing
\* build tool, whatever the build exits with.
C4_ExitCodeIdentifiesClass ==
    (pc = "done" /\ FailureClass \in {"source", "exists", "tool", "build"})
        => /\ ret.kind = "return"
           /\ ret.code # 0
           /\ ret.code = 2 <=> FailureClass = "source"
           /\ ret.code = 3 <=> FailureClass = "exists"
           /\ ret.code = 4 <=> FailureClass = "tool"

\* C4 amended: a missing source returns 2, FileExistsError from
\* create_project returns 3, a missing executable during the build returns
\* 4, and a subprocess that exits non-zero makes main return that exit code
\* itself, non-zero but not kept apart from 2, 3 and 4; main returns 0 only
\* when nothing failed.
C4_ExitCodes ==
    pc = "done"
        => /\ created = "not_called" => ret = Return(2)
           /\ created = "FileExistsError" => ret = Return(3)
           /\ built.exc = "FileNotFoundError" => ret = Return(4)
           /\ built.exc = "CalledProcessError"
                => /\ ret = Return(built.returncode)
                   /\ ret.code # 0
                   /\ AssembleInvoked => ret.code = host.gradlew_rc
                   /\ ~AssembleInvoked => ret.code = host.wrapper_rc
           /\ ret = Return(0)
                <=> (created = "ok" /\ built.exc \in {"not_called", "none"})

\* C4 witness: the wrapper build ran and exited 3, the code of an existing root
C4_Witness ==
    /\ pc = "done"
    /\ built.exc = "CalledProcessError"
    /\ AssembleInvoked
    /\ host.gradlew_rc = 3
    /\ ret = Return(3)

\* C5 as stated: after a successful create_project without an external
\* source, the namespace and the applicationId of app/build.gradle.kts and
\* the package of MainActivity.kt all equal the given application_id.
C5_ApplicationIdConsistent ==
    (runs = 1 /\ created = "ok" /\ args.source = <<>>)
        => LET root == root_of(args)
               gradle == fs[Resolve(Child(Child(root, "app"), "build.gradle.kts"))].content
               stub == fs[Resolve(main_activity_path_of(root, args.application_id))].content
           IN  /\ Field(gradle, NamespaceOpen, NamespaceClose) = args.application_id
               /\ Field(gradle, AppIdOpen, AppIdClose) = args.application_id
               /\ Field(stub, PackageOpen, PackageClose) = args.application_id

\* C6 as stated: every path that create_project creates or changes lies
\* inside output_dir/project_name (the directories leading to it aside).
C6_WritesInsideRoot ==
    runs = 1
        => \A p \in DOMAIN fs :
               (p \notin DOMAIN fs0 \/ fs[p] # fs0[p])
                   => (IsUnder(p, RootR) \/ p \in Prefixes(RootR))

Segments(id) == Split(id, ".")

HasEmptySegment(id) ==
    "." \in Range(id) /\ \E i \in 1..Len(Segments(id)) : Segments(id)[i] = <<>>

KeptSegments(id) == SelectSeq(Segments(id), NonEmpty)

RECURSIVE DotJoin(_)
DotJoin(segs) ==
    IF segs = <<>> THEN <<>>
    ELSE IF Len(segs) = 1 THEN segs[1]
    ELSE segs[1] \o <<".">> \o DotJoin(Tail(segs))

AllAllowed(t) == \A i \in 1..Len(t) : t[i] \in Allowed

HasAllowed(t) == \E i \in 1..Len(t) : t[i] \in Allowed

\* s with every character outside [A-Za-z0-9_-] deleted
RECURSIVE KeepAllowed(_)
KeepAllowed(t) ==
    IF t = <<>> THEN <<>>
    ELSE IF t[Len(t)] \in Allowed
         THEN Append(KeepAllowed(SubSeq(t, 1, Len(t) - 1)), t[Len(t)])
    ELSE KeepAllowed(SubSeq(t, 1, Len(t) - 1))

\* C8 as stated: for all s and f the result has only allowed characters, is
\* s with the other characters deleted, and is f exactly when s has no
\* allowed character.
C8_SafeNameAlwaysClean ==
    sn.applied
        => /\ AllAllowed(sn.out)
           /\ sn.out = KeepAllowed(sn.s)
           /\ sn.out = sn.f <=> ~HasAllowed(sn.s)

\* C8 amended: if s has an allowed character, safe_name(s, f) is s with
\* every other character (whitespace too) deleted and nothing substituted,
\* so it has only allowed characters; otherwise it is f unchanged.
C8_SafeName ==
    sn.applied
        => IF HasAllowed(sn.s)
           THEN sn.out = KeepAllowed(sn.s) /\ AllAllowed(sn.out) /\ sn.out # <<>>
           ELSE sn.out = sn.f

\* C8 witness: " a!" is cleaned to "a"
C8_Witness ==
    /\ sn.applied
    /\ sn.s = <<" ", "a", "!">>
    /\ sn.f = DefaultProject
    /\ sn.out = <<"a">>

\* C9 as stated: with --build and no --offline argument, the wrapper build
\* is invoked with --offline on its command line.
C9_OfflineByDefault ==
    \A i \in 1..Len(cmds) :
        (args.build /\ ~args.offline /\ cmds[i].prog = gradlew)
            => "--offline" \in Range(cmds[i].argv)

====
